---- MODULE Spec2Model ----
(***************************************************************************)
(* A model of app.py of the inventory app: the column guesser              *)
(* (guess_column), the row filter (filter_search) and the pick list        *)
(* aggregator (add_to_picklist, the clear button, the export column        *)
(* order), with the session state the Streamlit script keeps.              *)
(*                                                                         *)
(* Cell values are tagged (string, integer, missing) because Python's      *)
(* str() and == treat them differently.  A string is a sequence of         *)
(* one-character strings.  A dict (a DataFrame row, a pick list entry, the *)
(* guesser's lookup) is a sequence of key/value pairs in insertion order,  *)
(* which is the order Python iterates it in.                               *)
(***************************************************************************)
EXTENDS Integers, Sequences, FiniteSets, TLC

VARIABLES
    df,                \* the catalog (load_inventory's DataFrame): a sequence of rows
    product_col,       \* the sidebar's product column
    location_col,      \* the sidebar's location column, NoCol for "<keine>"
    picklist,          \* st.session_state["picklist"]
    origin,            \* history: per pick list entry, the product and the column it was
                       \* appended for
    tracking,          \* history: the product column has not changed since the first add
                       \* after the last clear
    added,             \* history: while tracking, per product of the catalog the positive
                       \* quantities added since the last clear
    skipping,          \* history: since the last clear, some add appended or merged while
                       \* another product of its selection had to be skipped
    search_df,         \* filter_search's df
    search_term,       \* filter_search's term
    search_columns,    \* filter_search's search_columns
    filtered_df,       \* filter_search's result (or Raised)
    g_columns,         \* guess_column's columns
    g_candidates,      \* guess_column's candidates
    g_result           \* guess_column's result

aggVars == <<df, product_col, location_col, picklist, origin, tracking, added, skipping>>
filterVars == <<search_df, search_term, search_columns, filtered_df>>
guessVars == <<g_columns, g_candidates, g_result>>
vars == <<aggVars, filterVars, guessVars>>

----------------------------------------------------------------------------
(* Bounds of the model *)

MaxSel == 2        \* longest selection passed to add_to_picklist
MaxQty == 1        \* largest quantity entered for one product
MaxMenge == 2      \* cap on an entry's quantity and on a product's added total
MaxPick == 2       \* cap on the pick list's length
MaxTermLen == 2    \* longest search term
MaxCols == 2       \* most columns passed to guess_column
MaxCands == 2      \* most candidates passed to guess_column

----------------------------------------------------------------------------
(* Values *)

StrV(s) == [t |-> "str", s |-> s, n |-> 0]
IntV(n) == [t |-> "int", s |-> <<>>, n |-> n]
NaN == [t |-> "nan", s |-> <<>>, n |-> 0]
None == [t |-> "none", s |-> <<>>, n |-> 0]

Digits == <<"0", "1", "2", "3", "4", "5", "6", "7", "8", "9">>

RECURSIVE NatToStr(_)
NatToStr(n) == IF n < 10 THEN <<Digits[n + 1]>>
               ELSE NatToStr(n \div 10) \o <<Digits[(n % 10) + 1]>>

\* Python's str(v), which is also what astype(str) gives cell by cell: a
\* missing cell becomes the text "nan".
Str(v) ==
    CASE v.t = "str" -> v.s
      [] v.t = "int" -> IF v.n < 0 THEN <<"-">> \o NatToStr(-v.n) ELSE NatToStr(v.n)
      [] v.t = "nan" -> <<"n", "a", "n">>
      [] OTHER -> <<"N", "o", "n", "e">>

\* Python's a == b on two cell values: a missing value (float nan) equals
\* nothing, itself included; a string never equals a number.
PyEq(a, b) ==
    CASE a.t = "nan" \/ b.t = "nan" -> FALSE
      [] a.t # b.t -> FALSE
      [] a.t = "str" -> a.s = b.s
      [] a.t = "int" -> a.n = b.n
      [] OTHER -> TRUE

----------------------------------------------------------------------------
(* Dicts in insertion order *)

Has(d, k) == \E i \in 1..Len(d) : d[i].k = k
Idx(d, k) == CHOOSE i \in 1..Len(d) : d[i].k = k
Get(d, k) == IF Has(d, k) THEN d[Idx(d, k)].v ELSE None
Put(d, k, v) == IF Has(d, k) THEN [d EXCEPT ![Idx(d, k)].v = v]
                ELSE Append(d, [k |-> k, v |-> v])
Keys(d) == [i \in 1..Len(d) |-> d[i].k]

Range(s) == {s[i] : i \in 1..Len(s)}

\* guess_column's result: a column name, or Python's None.
NoColumn == [found |-> FALSE, col |-> <<>>]
Column(c) == [found |-> TRUE, col |-> c]

Row(ks, vs) == [i \in 1..Len(ks) |-> [k |-> ks[i], v |-> vs[i]]]

----------------------------------------------------------------------------
(* The catalog *)

\* The quantity field add_to_picklist adds: "Menge"
Menge == <<"M", "e", "n", "g", "e">>
\* The display-location field it adds: "Lagerort_Anzeige"
LagerortAnzeige == <<"L", "a", "g", "e", "r", "o", "r", "t", "_", "A", "n", "z", "e", "i", "g", "e">>
\* The location selectbox's "<keine>", which the script turns into None
NoCol == <<"<", "k", "e", "i", "n", "e", ">">>

\* Column names of the catalogs
Item == <<"I", "t", "e", "m">>
Bin == <<"B", "i", "n">>

Bolt == <<"B", "o", "l", "t">>
Nut == <<"N", "u", "t">>
A1 == <<"A", "1">>
B2 == <<"B", "2">>
Unknown == <<"X">>                        \* a product identity of no catalog

\* The catalogs a session may have loaded.  CatPlain is the spec's scenario;
\* CatStock has a missing product cell and a stock column called Menge.
CatPlain == << Row(<<Item, Bin>>, <<StrV(Bolt), StrV(A1)>>),
               Row(<<Item, Bin>>, <<StrV(Nut), StrV(B2)>>) >>
CatStock == << Row(<<Item, Menge>>, <<NaN, IntV(5)>>),
               Row(<<Item, Menge>>, <<StrV(Bolt), IntV(5)>>) >>
Catalogs == {CatPlain, CatStock}

\* all_columns = list(df.columns)
AllColumns(d) == Keys(d[1])

\* base_df[product_col].astype(str).dropna().unique(): dropna comes after the
\* conversion, so the text "nan" of a missing cell stays an option.
AvailableProducts(d, pc) == {StrV(Str(Get(d[i], pc))) : i \in 1..Len(d)}

\* What a caller may pass as a selected product: an option of the
\* multiselect, or an identity no record has.
Selectable(d, pc) == AvailableProducts(d, pc) \cup {StrV(Unknown)}

AllProducts ==
    UNION {UNION {Selectable(d, c) : c \in Range(AllColumns(d))} : d \in Catalogs}

----------------------------------------------------------------------------
(* add_to_picklist *)

\* quantities.get(prod, 0)
QGet(q, prod) == IF prod \in DOMAIN q THEN q[prod] ELSE 0

SkippedLt(qty) == qty < 0
\* if qty <= 0: continue
Skipped(qty) == qty <= 0

MatchingRowsAny(d, pc, prod) == d
\* rows = df[df[product_col].astype(str) == str(prod)]
MatchingRows(d, pc, prod) == SelectSeq(d, LAMBDA r : Str(Get(r, pc)) = Str(prod))

\* row = rows.iloc[0].to_dict(); row["Menge"] = qty; the display location
\* is read from the row after the quantity was written into it.
BuildRow(rec, qty, lc) ==
    LET row == Put(rec, Menge, IntV(qty))
    IN IF lc # NoCol /\ Has(row, lc) THEN Put(row, LagerortAnzeige, Get(row, lc))
       ELSE row

\* for existing in picklist: if existing.get(product_col) == row.get(product_col)
\* The index of the first such entry, 0 if there is none.
FirstExisting(pl, pc, row) ==
    LET hits == {i \in 1..Len(pl) : PyEq(Get(pl[i], pc), Get(row, pc))}
    IN IF hits = {} THEN 0 ELSE CHOOSE i \in hits : \A j \in hits : i <= j

\* existing.get("Menge", 0)
MengeOf(e) == IF Has(e, Menge) THEN Get(e, Menge).n ELSE 0

\* existing["Menge"] = existing.get("Menge", 0) + qty
Merge(pl, i, qty) == [pl EXCEPT ![i] = Put(@, Menge, IntV(MengeOf(@) + qty))]

\* One pass of the loop body, for one selected product.
AddOne(pl, d, pc, lc, prod, q) ==
    LET qty == QGet(q, prod)
        rows == MatchingRows(d, pc, prod)
    IN IF Skipped(qty) THEN pl
       ELSE IF rows = <<>> THEN pl
       ELSE LET row == BuildRow(rows[1], qty, lc)
                i == FirstExisting(pl, pc, row)
            IN IF i = 0 THEN Append(pl, row) ELSE Merge(pl, i, qty)

RECURSIVE AddToPicklist(_, _, _, _, _, _)
AddToPicklist(pl, d, pc, lc, sel, q) ==
    IF sel = <<>> THEN pl
    ELSE AddToPicklist(AddOne(pl, d, pc, lc, Head(sel), q), d, pc, lc, Tail(sel), q)

----------------------------------------------------------------------------
(* The export's column order *)

\* list(pd.DataFrame(picklist).columns): the entries' keys in the order they
\* are first seen.
RECURSIVE AppendNew(_, _)
AppendNew(acc, ks) ==
    IF ks = <<>> THEN acc
    ELSE AppendNew(IF Head(ks) \in Range(acc) THEN acc ELSE Append(acc, Head(ks)), Tail(ks))

RECURSIVE FrameColumns(_)
FrameColumns(pl) ==
    IF pl = <<>> THEN <<>>
    ELSE AppendNew(FrameColumns(SubSeq(pl, 1, Len(pl) - 1)), Keys(pl[Len(pl)]))

\* for c in [product_col, "Lagerort_Anzeige", "Menge"]:
\*     if c in cols and c not in ordered_cols: ordered_cols.append(c)
RECURSIVE LeadColumns(_, _, _)
LeadColumns(acc, lead, cols) ==
    IF lead = <<>> THEN acc
    ELSE LeadColumns(IF Head(lead) \in Range(cols) /\ Head(lead) \notin Range(acc)
                     THEN Append(acc, Head(lead)) ELSE acc,
                     Tail(lead), cols)

OrderedCols(pl, pc) ==
    LET cols == FrameColumns(pl)
    IN AppendNew(LeadColumns(<<>>, <<pc, LagerortAnzeige, Menge>>, cols), cols)

----------------------------------------------------------------------------
(* filter_search *)

UpperCase == <<"A", "B", "C", "D", "E", "F", "G", "H", "I", "J", "K", "L", "M",
               "N", "O", "P", "Q", "R", "S", "T", "U", "V", "W", "X", "Y", "Z">>
LowerCase == <<"a", "b", "c", "d", "e", "f", "g", "h", "i", "j", "k", "l", "m",
               "n", "o", "p", "q", "r", "s", "t", "u", "v", "w", "x", "y", "z">>

\* One character of str.lower()
LowerChar(c) == IF \E i \in 1..Len(UpperCase) : UpperCase[i] = c
                THEN LowerCase[CHOOSE i \in 1..Len(UpperCase) : UpperCase[i] = c]
                ELSE c
\* str.lower()
Lower(s) == [i \in 1..Len(s) |-> LowerChar(s[i])]

\* term.strip()
RECURSIVE LStrip(_)
LStrip(s) == IF s # <<>> /\ Head(s) = " " THEN LStrip(Tail(s)) ELSE s
RECURSIVE RStrip(_)
RStrip(s) == IF s # <<>> /\ s[Len(s)] = " " THEN RStrip(SubSeq(s, 1, Len(s) - 1)) ELSE s
Strip(s) == RStrip(LStrip(s))

\* re.compile(term): the term is a regular expression.  Of the characters of
\* the model's terms, "." stands for any character, "*" repeats the atom
\* before it and "(" opens a group; the others stand for themselves.  The
\* result is the sequence of atoms, or BadPattern where re.compile raises: a
\* "(" that is never closed, a "*" with nothing to repeat, a "*" after a "*".
BadPattern == <<[c |-> "", star |-> FALSE]>>
RECURSIVE Compile(_, _)
Compile(term, atoms) ==
    IF term = <<>> THEN atoms
    ELSE IF Head(term) = "(" THEN BadPattern
    ELSE IF Head(term) = "*"
         THEN IF atoms = <<>> \/ atoms[Len(atoms)].star THEN BadPattern
              ELSE Compile(Tail(term), [atoms EXCEPT ![Len(atoms)].star = TRUE])
    ELSE Compile(Tail(term), Append(atoms, [c |-> Head(term), star |-> FALSE]))

\* One atom against one character, under re.IGNORECASE.
AtomMatches(c, x) == c = "." \/ LowerChar(c) = LowerChar(x)

\* Whether the atoms match s from just after position i on.
RECURSIVE MatchHere(_, _, _)
MatchHere(atoms, s, i) ==
    IF atoms = <<>> THEN TRUE
    ELSE IF Head(atoms).star
         THEN \E n \in 0..(Len(s) - i) :
                  /\ \A m \in 1..n : AtomMatches(Head(atoms).c, s[i + m])
                  /\ MatchHere(Tail(atoms), s, i + n)
    ELSE /\ i < Len(s)
         /\ AtomMatches(Head(atoms).c, s[i + 1])
         /\ MatchHere(Tail(atoms), s, i + 1)

\* regex.search(s)
Search(atoms, s) == \E i \in 0..Len(s) : MatchHere(atoms, s, i)

\* df[col].astype(str).str.contains(term, case=False, na=False), for one
\* cell: the cell is text by the time it is searched, so na never applies.
CellContains(v, atoms) == Search(atoms, Str(v))

Raised == [ok |-> FALSE, rows |-> <<>>]
Returned(rows) == [ok |-> TRUE, rows |-> rows]

\* The function.  With no search column the mask stays False and df[False]
\* raises KeyError.
filter_search(d, term, cols) ==
    IF term = <<>> THEN Returned(d)
    ELSE LET stripped == Strip(term)
             atoms == Compile(stripped, <<>>)
         IN IF stripped = <<>> THEN Returned(d)
            ELSE IF cols = <<>> THEN Raised
            ELSE IF atoms = BadPattern THEN Raised
            ELSE Returned(SelectSeq(d, LAMBDA r :
                     \E k \in 1..Len(cols) : CellContains(Get(r, cols[k]), atoms)))

----------------------------------------------------------------------------
(* guess_column *)

\* cand in col_lower
Contains(s, x) ==
    \E i \in 0..(Len(s) - Len(x)) : \A m \in 1..Len(x) : s[i + m] = x[m]

\* cols_lower = {c.lower(): c for c in columns}: a later column with the same
\* lowercased name replaces the value and leaves the key where it is.
RECURSIVE ColsLower(_, _)
ColsLower(columns, acc) ==
    IF columns = <<>> THEN acc
    ELSE ColsLower(Tail(columns), Put(acc, Lower(Head(columns)), Head(columns)))

\* for col_lower, original in cols_lower.items(): if cand in col_lower: return original
FirstItem(lookup, cand) ==
    LET hits == {i \in 1..Len(lookup) : Contains(lookup[i].k, cand)}
    IN IF hits = {} THEN 0 ELSE CHOOSE i \in hits : \A j \in hits : i <= j

RECURSIVE GuessLoop(_, _, _)
GuessLoop(columns, lookup, candidates) ==
    IF candidates = <<>>
    THEN IF columns # <<>> THEN Column(columns[1]) ELSE NoColumn
    ELSE LET i == FirstItem(lookup, Lower(Head(candidates)))
         IN IF i # 0 THEN Column(lookup[i].v)
            ELSE GuessLoop(columns, lookup, Tail(candidates))

guess_column(columns, candidates) ==
    GuessLoop(columns, ColsLower(columns, <<>>), candidates)

----------------------------------------------------------------------------
(* The session: the sidebar, the add button, the clear button *)

\* Sequences over S of length at most n.
SeqsUpTo(S, n) == UNION {[1..k -> S] : k \in 0..n}

\* The quantities a caller may pass: a mapping from some of the selected
\* products to an integer, negative and zero included.
QtyVals == (0 - 1)..MaxQty
QuantitiesFor(sel) == UNION {[D -> QtyVals] : D \in SUBSET Range(sel)}

NoneAdded == [p \in AllProducts |-> 0]

\* The parts of the state a specification of one function leaves alone.
AggIdle ==
    /\ df = CatPlain /\ product_col = Item /\ location_col = NoCol
    /\ picklist = <<>> /\ origin = <<>> /\ tracking = TRUE /\ added = NoneAdded
    /\ skipping = FALSE
FilterIdle == /\ search_df = <<>> /\ search_term = <<>> /\ search_columns = <<>>
              /\ filtered_df = <<>>
GuessIdle == g_columns = <<>> /\ g_candidates = <<>> /\ g_result = NoColumn

\* History: the origin of the entries the call appends.
RECURSIVE OriginAfter(_, _, _, _)
OriginAfter(pl, org, sel, q) ==
    IF sel = <<>> THEN org
    ELSE LET nxt == AddOne(pl, df, product_col, location_col, Head(sel), q)
         IN OriginAfter(nxt,
                        IF Len(nxt) > Len(pl)
                        THEN Append(org, [prod |-> Head(sel), col |-> product_col])
                        ELSE org,
                        Tail(sel), q)

\* Whether the catalog has a record for the product under the column.
Present(d, pc, prod) == \E i \in 1..Len(d) : Str(Get(d[i], pc)) = Str(prod)

\* History: the positive quantities the call was given for products of the
\* catalog, per occurrence in the selection.
RECURSIVE AddedAfter(_, _, _)
AddedAfter(a, sel, q) ==
    IF sel = <<>> THEN a
    ELSE LET p == Head(sel)
             n == IF p \in DOMAIN q /\ q[p] > 0 /\ Present(df, product_col, p)
                  THEN q[p] ELSE 0
         IN AddedAfter([a EXCEPT ![p] = @ + n], Tail(sel), q)



\* A selected product the call has to skip: no quantity, a quantity <= 0, or
\* no record of the catalog.
ToSkip(d, pc, q, prod) ==
    \/ prod \notin DOMAIN q
    \/ q[prod] <= 0
    \/ ~Present(d, pc, prod)


\* The candidates the script passes to guess_column.
ProductCandidates ==
    << <<"a", "r", "t", "i", "k", "e", "l">>,
       <<"p", "r", "o", "d", "u", "k", "t">>,
       <<"p", "r", "o", "d", "u", "c", "t">>,
       <<"n", "a", "m", "e">>,
       <<"b", "e", "z", "e", "i", "c", "h", "n", "u", "n", "g">>,
       <<"i", "t", "e", "m">> >>
LocationCandidates ==
    << <<"l", "a", "g", "e", "r">>,
       <<"l", "a", "g", "e", "r", "o", "r", "t">>,
       <<"l", "o", "c", "a", "t", "i", "o", "n">>,
       <<"w", "a", "r", "e", "h", "o", "u", "s", "e">>,
       <<"r", "e", "g", "a", "l">>,
       <<"f", "a", "c", "h">>,
       <<"b", "i", "n">> >>

\* A session starts with a loaded catalog, the sidebar's columns at
\* guess_column's guesses (a guess is always one of the columns of a catalog
\* that has one) and an empty pick list.
Init ==
    /\ df \in Catalogs
    /\ product_col = guess_column(AllColumns(df), ProductCandidates).col
    /\ location_col = guess_column(AllColumns(df), LocationCandidates).col
    /\ picklist = <<>>
    /\ origin = <<>>
    /\ tracking = TRUE
    /\ added = NoneAdded
    /\ skipping = FALSE
    /\ FilterIdle
    /\ GuessIdle

\* product_col = st.sidebar.selectbox(..., options=all_columns)
SelectProduct(c) ==
    /\ c # product_col
    /\ product_col' = c
    /\ tracking' = (tracking /\ added = NoneAdded)
    /\ added' = NoneAdded
    /\ UNCHANGED <<df, location_col, picklist, origin, skipping>>
    /\ UNCHANGED <<filterVars, guessVars>>

\* location_col = st.sidebar.selectbox(..., options=["<keine>"] + all_columns)
SelectLocation(c) ==
    /\ c # location_col
    /\ location_col' = c
    /\ UNCHANGED <<df, product_col, picklist, origin, tracking, added, skipping>>
    /\ UNCHANGED <<filterVars, guessVars>>

\* if st.button("Zur Pickliste hinzufügen"): add_to_picklist(df, product_col, ...)
Add(sel, q) ==
    LET pl == AddToPicklist(picklist, df, product_col, location_col, sel, q)
        a == IF tracking THEN AddedAfter(added, sel, q) ELSE added
    IN /\ Len(pl) <= MaxPick
       /\ \A i \in 1..Len(pl) : MengeOf(pl[i]) <= MaxMenge
       /\ \A p \in AllProducts : a[p] <= MaxMenge
       /\ picklist' = pl
       /\ origin' = OriginAfter(picklist, origin, sel, q)
       /\ added' = a
       /\ tracking' = tracking
       /\ skipping' = (\/ skipping
                        \/ /\ pl # picklist
                           /\ \E k \in 1..Len(sel) : ToSkip(df, product_col, q, sel[k]))
       /\ UNCHANGED <<df, product_col, location_col>>
       /\ UNCHANGED <<filterVars, guessVars>>

\* if st.button("Pickliste leeren"): st.session_state["picklist"] = []
\* The button is only drawn while the pick list has entries.
Clear ==
    /\ picklist # <<>>
    /\ picklist' = <<>>
    /\ origin' = <<>>
    /\ tracking' = TRUE
    /\ added' = NoneAdded
    /\ skipping' = FALSE
    /\ UNCHANGED <<df, product_col, location_col>>
    /\ UNCHANGED <<filterVars, guessVars>>

Next ==
    \/ \E c \in Range(AllColumns(df)) : SelectProduct(c)
    \/ \E c \in {NoCol} \cup Range(AllColumns(df)) : SelectLocation(c)
    \/ \E sel \in SeqsUpTo(Selectable(df, product_col), MaxSel) :
           \E q \in QuantitiesFor(sel) : Add(sel, q)
    \/ Clear

Spec == Init /\ [][Next]_vars

----------------------------------------------------------------------------
(* filter_search on its own: the search tab *)

TermChars == {"b", "B", "o", "n", ".", "*", "(", " "}
Terms == SeqsUpTo(TermChars, MaxTermLen)

\* The lists of search columns: the app passes [product_col] or all_columns,
\* never an empty list; a caller may pass the columns in any order, or twice.
ColumnLists(d) == SeqsUpTo(Range(AllColumns(d)), Len(AllColumns(d))) \ {<<>>}

InitFilter ==
    /\ search_df \in Catalogs
    /\ search_term = <<>>
    /\ search_columns = AllColumns(search_df)
    /\ filtered_df = filter_search(search_df, search_term, search_columns)
    /\ AggIdle
    /\ GuessIdle

\* filtered_df = filter_search(df, search_term, search_columns)
SearchFor(term, cols) ==
    /\ search_term' = term
    /\ search_columns' = cols
    /\ filtered_df' = filter_search(search_df, term, cols)
    /\ UNCHANGED <<search_df, aggVars, guessVars>>

NextFilter == \E term \in Terms : \E cols \in ColumnLists(search_df) : SearchFor(term, cols)

SpecFilter == InitFilter /\ [][NextFilter]_vars

----------------------------------------------------------------------------
(* guess_column on its own *)

\* Column names, two of them equal but for letter case, and candidates.
ColumnNames == {<<"N", "a">>, <<"N", "A">>, <<"B", "i", "n">>, <<"I", "d">>}
Candidates == {<<"n", "a">>, <<"N", "A">>, <<"I">>, <<"n">>, <<"x">>}

\* Lists without a repeated element.
Distinct(s) == \A i, j \in 1..Len(s) : i # j => s[i] # s[j]

InitGuess ==
    /\ g_columns = <<>>
    /\ g_candidates = <<>>
    /\ g_result = guess_column(<<>>, <<>>)
    /\ AggIdle
    /\ FilterIdle

\* product_col_guess = guess_column(all_columns, [...])
Guess(columns, candidates) ==
    /\ g_columns' = columns
    /\ g_candidates' = candidates
    /\ g_result' = guess_column(columns, candidates)
    /\ UNCHANGED <<aggVars, filterVars>>

NextGuess ==
    \E columns \in {s \in SeqsUpTo(ColumnNames, MaxCols) : Distinct(s)} :
        \E candidates \in SeqsUpTo(Candidates, MaxCands) : Guess(columns, candidates)

SpecGuess == InitGuess /\ [][NextGuess]_vars

----------------------------------------------------------------------------
(* Claims about the pick list *)

\* The identity key of an entry under a product column.
Key(e, pc) == Str(Get(e, pc))

\* The selection without every occurrence of a product.
Without(sel, prod) == SelectSeq(sel, LAMBDA x : x # prod)

\* The calls of add_to_picklist the add button can make in the current state.
Calls == UNION {{<<sel, q>> : q \in QuantitiesFor(sel)} :
                   sel \in SeqsUpTo(Selectable(df, product_col), MaxSel)}

\* C1: no two pick list entries have the same identity key, the text of their
\* value in the product column now in use.
C1_UniqueKeys ==
    \A i, j \in 1..Len(picklist) :
        i < j => Key(picklist[i], product_col) # Key(picklist[j], product_col)

\* C2: while the product column is fixed, the pick list holds exactly one
\* entry for each product of the catalog that was added with a quantity > 0
\* since the last clear, and its quantity is the sum of those quantities.
C2_SumsQuantities ==
    tracking =>
        LET prods == {p \in AllProducts : added[p] > 0}
        IN /\ Len(picklist) = Cardinality(prods)
           /\ \A p \in prods :
                  \E i \in 1..Len(picklist) :
                      /\ Key(picklist[i], product_col) = Str(p)
                      /\ Get(picklist[i], Menge) = IntV(added[p])
                      /\ \A j \in 1..Len(picklist) :
                             Key(picklist[j], product_col) = Str(p) => j = i

\* C3: every pick list entry has a numeric quantity greater than 0.
C3_PositiveQuantity ==
    \A i \in 1..Len(picklist) :
        /\ Has(picklist[i], Menge)
        /\ Get(picklist[i], Menge).t = "int"
        /\ Get(picklist[i], Menge).n > 0

\* C3's case: the catalog has its own Menge column, it is the product column,
\* and an entry's quantity was raised by a merge.
C3_Witness ==
    /\ Has(df[1], Menge)
    /\ product_col = Menge
    /\ \E i \in 1..Len(picklist) : MengeOf(picklist[i]) > MaxQty

\* C4: a call of add_to_picklist from any reachable state gives the same pick
\* list as the call without a selected product that has no quantity, a
\* quantity <= 0 or no record in the catalog.
C4_SkippedLeaveNoTrace ==
    \A c \in Calls :
        \A k \in 1..Len(c[1]) :
            ToSkip(df, product_col, c[2], c[1][k]) =>
                AddToPicklist(picklist, df, product_col, location_col, c[1], c[2])
                = AddToPicklist(picklist, df, product_col, location_col,
                                Without(c[1], c[1][k]), c[2])

\* C4's case: an add changed the pick list while it skipped another product
\* of its selection.
C4_Witness == skipping /\ picklist # <<>>

\* Whether s is t with some elements left out.
RECURSIVE IsSubSeq(_, _)
IsSubSeq(s, t) ==
    IF s = <<>> THEN TRUE
    ELSE IF t = <<>> THEN FALSE
    ELSE IF Head(s) = Head(t) THEN IsSubSeq(Tail(s), Tail(t))
    ELSE IsSubSeq(s, Tail(t))

\* Two entries are the same but for the quantity.
SameButQuantity(e, f, pc) ==
    /\ Key(e, pc) = Key(f, pc)
    /\ Range(Keys(e)) = Range(Keys(f))
    /\ \A k \in Range(Keys(e)) : k # Menge => Get(e, k) = Get(f, k)

\* The keys of the entries a step appended.
NewKeys(old, new, pc) == [i \in 1..(Len(new) - Len(old)) |-> Key(new[Len(old) + i], pc)]

C5Step ==
    /\ Len(picklist') < Len(picklist) => picklist' = <<>>
    /\ (Len(picklist') >= Len(picklist) /\ product_col' = product_col) =>
           \A i \in 1..Len(picklist) :
               SameButQuantity(picklist'[i], picklist[i], product_col)
    /\ (Len(picklist') >= Len(picklist) /\ picklist' # picklist) =>
           \A c \in Calls :
               AddToPicklist(picklist, df, product_col, location_col, c[1], c[2]) = picklist'
               => IsSubSeq(NewKeys(picklist, picklist', product_col),
                           [k \in 1..Len(c[1]) |-> Str(c[1][k])])

\* C5: a step that shortens the pick list empties it; every other step keeps
\* the entries it finds, in their order and unchanged but for the quantity;
\* and the entries an add appends are in the order of their products in the
\* selection, whichever call of the add button made the step.
C5_FirstInsertionOrder == [][C5Step]_vars

\* Where a field is first seen across the entries.
FirstSeen(k) ==
    LET i == CHOOSE i \in 1..Len(picklist) :
                 /\ Has(picklist[i], k)
                 /\ \A j \in 1..(i - 1) : ~Has(picklist[j], k)
    IN <<i, Idx(picklist[i], k)>>
SeenBefore(a, b) ==
    \/ FirstSeen(a)[1] < FirstSeen(b)[1]
    \/ FirstSeen(a)[1] = FirstSeen(b)[1] /\ FirstSeen(a)[2] < FirstSeen(b)[2]

\* C9: the exported columns are the entries' fields, each once: the product
\* column, then the display location if an entry has it, then the quantity as
\* a column of its own, then the other fields in first-seen order.
C9_ExportOrder ==
    picklist # <<>> =>
        LET oc == OrderedCols(picklist, product_col)
            fields == UNION {Range(Keys(picklist[i])) : i \in 1..Len(picklist)}
            qi == IF LagerortAnzeige \in fields THEN 3 ELSE 2
        IN /\ Range(oc) = fields
           /\ Len(oc) = Cardinality(fields)
           /\ oc[1] = product_col
           /\ LagerortAnzeige \in fields => oc[2] = LagerortAnzeige
           /\ oc[qi] = Menge
           /\ Menge # product_col
           /\ \A a, b \in (qi + 1)..Len(oc) : a < b => SeenBefore(oc[a], oc[b])

\* The first record of the catalog for a product under a column.
FirstRecord(d, pc, prod) ==
    d[CHOOSE i \in 1..Len(d) :
          /\ Str(Get(d[i], pc)) = Str(prod)
          /\ \A j \in 1..(i - 1) : Str(Get(d[j], pc)) # Str(prod)]

\* C10: every entry has every catalog column with the value of the first
\* record for the product it was appended for, and the catalog is as loaded.
C10_FaithfulCopy ==
    /\ df \in Catalogs
    /\ \A i \in 1..Len(picklist) :
           \A c \in Range(AllColumns(df)) :
               /\ Has(picklist[i], c)
               /\ Get(picklist[i], c) = Get(FirstRecord(df, origin[i].col, origin[i].prod), c)

----------------------------------------------------------------------------
(* Claims about filter_search *)

Blank(term) == \A i \in 1..Len(term) : term[i] = " "

\* s contains x as a literal substring, letter case ignored.
ContainsCI(s, x) ==
    \E i \in 0..(Len(s) - Len(x)) : \A m \in 1..Len(x) : LowerChar(s[i + m]) = LowerChar(x[m])

\* The filter the spec describes; a term is matched without the whitespace
\* around it, as the code does.
RefFilter(d, term, cols) ==
    IF Blank(term) THEN d
    ELSE SelectSeq(d, LAMBDA r :
             \E k \in 1..Len(cols) : ContainsCI(Str(Get(r, cols[k])), Strip(term)))

\* C6: filter_search returns what the reference filter returns: the input
\* for a blank term, else the rows one of whose search columns contains the
\* term as a literal substring, letter case ignored.
C6_FilterIsSubstringSearch ==
    filtered_df = Returned(RefFilter(search_df, search_term, search_columns))

PlainChars == {"b", "B", "o", "n"}

\* C7: for a term that is not blank, a row is kept only if one of its search
\* columns holds a value that is not missing and whose text contains the term.
\* Stated for the terms without ".", "*" and "(", for which the code's match
\* is the literal one.
C7_MissingNeverMatches ==
    (~Blank(search_term) /\ Range(search_term) \subseteq PlainChars \cup {" "}) =>
        /\ filtered_df.ok
        /\ \A i \in 1..Len(filtered_df.rows) :
               \E k \in 1..Len(search_columns) :
                   LET v == Get(filtered_df.rows[i], search_columns[k])
                   IN v.t # "nan" /\ ContainsCI(Str(v), Strip(search_term))

----------------------------------------------------------------------------
(* Claims about guess_column *)

\* The candidates that some column name contains, letter case ignored.
Matching(columns, candidates) ==
    {k \in 1..Len(candidates) :
        \E i \in 1..Len(columns) : Contains(Lower(columns[i]), Lower(candidates[k]))}

\* The guesser the spec describes.
RefGuess(columns, candidates) ==
    LET ks == Matching(columns, candidates)
    IN IF ks # {}
       THEN LET k == CHOOSE k \in ks : \A m \in ks : k <= m
                is == {i \in 1..Len(columns) :
                          Contains(Lower(columns[i]), Lower(candidates[k]))}
            IN Column(columns[CHOOSE i \in is : \A j \in is : i <= j])
       ELSE IF columns # <<>> THEN Column(columns[1]) ELSE NoColumn

\* C8: guess_column returns what the reference guesser returns: for the
\* earliest candidate some column name contains, the first such column in the
\* order of the columns; the first column if no candidate matches; null for no
\* columns; and always null or one of the columns.
C8_GuessIsFirstColumn ==
    /\ g_result = RefGuess(g_columns, g_candidates)
    /\ g_result.found => g_result.col \in Range(g_columns)

====
